---- MODULE Spec2Model ----
(***************************************************************************)
(* Model of src/src/demo.py (BEN2 background remover): the tensor          *)
(* bookkeeping of the windowed-attention backbone (window partition and    *)
(* reverse, pad / cyclic shift / crop), the quadrant tiling of the decoder, *)
(* the forward pass over a batch of images, the positional-encoding fields *)
(* of the Long-Range Fusion module (MCLM), and model construction and      *)
(* checkpoint loading.                                                     *)
(*                                                                         *)
(* A tensor is a record [shape, data]: data is the contiguous row-major    *)
(* flattening of the elements, as torch lays out a contiguous tensor.      *)
(***************************************************************************)
EXTENDS Integers, Sequences, FiniteSets, TLC

VARIABLES
    \* ---- tensor bookkeeping (window ops, tiling, block forward)
    gB, gH, gW, gC,     \* batch, height, width, channels of the input
    gws, gshift,        \* window size and shift size of the block
    gop,                \* the function applied last
    gin, gmid, gout     \* its input, the intermediate tensor, its result

VARIABLES
    \* ---- fields of the module instances (they outlive a call)
    blkHW,              \* SwinTransformerBlock.H, .W of the blocks of each stage
    p_poses, g_pos,     \* MCLM.p_poses, MCLM.g_pos
    written,            \* names of the instance fields assigned inside forward
    \* ---- one BEN_Base.forward call
    fpc,                \* position in forward
    real_batch,         \* number of images N
    imgHW,              \* <<height, width>> of the input images
    fi,                 \* loop index i (tile assembly, stage, decoder pass)
    final_input,        \* the tiles concatenated along the batch axis
    backboneCalls,      \* invocations of self.backbone in this call
    xcur,               \* the token tensor inside the backbone: [B, L, C, Wh, Ww]
    outs,               \* the backbone's output list
    reads,              \* per decoder pass, the tiles it read from each level
    mclmUsed,           \* the frame of the last MCLM.forward as it ended
    mclmPrev,           \* the frame of the MCLM.forward before that one
    outputs,            \* the masks appended so far
    result              \* the tensor forward returned

VARIABLES
    \* ---- calls of MCLM.forward running at the same time on one instance
    frames              \* the frame of each thread's call

VARIABLES
    \* ---- construction and checkpoint loading
    wa,                 \* a constructed SwinTransformerBlock / WindowAttention
    waResult,           \* outcome of its construction and of its forward
    checkpoint,         \* model_dict['model_state_dict'] of the file on disk
    rpc,                \* position of BackgroundRemover: start, ready, aborted
    params,             \* the parameters of remover.model
    served              \* inference calls executed (counted up to MaxServed)

gridVars == <<gB, gH, gW, gC, gws, gshift, gop, gin, gmid, gout>>
fieldVars == <<blkHW, p_poses, g_pos, written>>
fwdVars == <<fpc, real_batch, imgHW, fi, final_input, backboneCalls, xcur,
             outs, reads, mclmUsed, mclmPrev, outputs, result>>
lifeVars == <<wa, waResult, checkpoint, rpc, params, served>>
vars == <<gridVars, fieldVars, fwdVars, frames, lifeVars>>

----------------------------------------------------------------------------
\* Bounds of the model
MaxB == 2
MaxC == 2
MaxHW == 4
MaxWs == 3
\* images in one forward call
MaxImages == 2
\* the tile sides of a forward call are TileStep, 2*TileStep, ..,
\* MaxTileK*TileStep
MaxTileK == 3
TileStep == 16
\* channel and head counts tried for a Windowed Attention
MaxDim == 4
MaxHeads == 3
\* parameters in the architecture's schema
NumParams == 2
MaxServed == 2

----------------------------------------------------------------------------
\* Tensors

RECURSIVE Prod(_)
Prod(s) == IF s = <<>> THEN 1 ELSE Head(s) * Prod(Tail(s))

\* Row-major strides of a contiguous tensor of the given shape.
Strides(shape) ==
    [k \in 1..Len(shape) |-> Prod(SubSeq(shape, k + 1, Len(shape)))]

RECURSIVE DotFrom(_, _, _)
DotFrom(f, g, k) == IF k = 0 THEN 0 ELSE f[k] * g[k] + DotFrom(f, g, k - 1)

\* The flat offset (0-based) of a multi-index.
Ravel(idx, shape) == DotFrom(idx, Strides(shape), Len(shape))

\* A tensor whose elements are 1, 2, 3, ... in memory order: every element
\* is distinct, so an element identifies the position it started at.
Iota(shape) == [shape |-> shape, data |-> [n \in 1..Prod(shape) |-> n]]

\* Element of t at a multi-index (0-based coordinates).
At(t, idx) == t.data[Ravel(idx, t.shape) + 1]

\* torch.Tensor.view: same memory, new shape.
View(t, shape) == [shape |-> shape, data |-> t.data]

\* Source offset of the element at offset m of a contiguous tensor of shape
\* new (strides nstr) whose dimension k walks the source with stride pstr[k].
RECURSIVE SrcOffset(_, _, _, _, _)
SrcOffset(m, new, nstr, pstr, k) ==
    IF k = 0 THEN 0
    ELSE ((m \div nstr[k]) % new[k]) * pstr[k]
            + SrcOffset(m, new, nstr, pstr, k - 1)

Gather(data, size, new, nstr, pstr) ==
    [n \in 1..size |-> data[SrcOffset(n - 1, new, nstr, pstr, Len(new)) + 1]]

\* permute(perm).contiguous(), perm 0-based as in the source:
\* result dimension k is source dimension perm[k].
PermuteTo(t, perm, new, ostr) ==
    [shape |-> new,
     data  |-> Gather(t.data, Prod(new), new, Strides(new),
                      [k \in 1..Len(new) |-> ostr[perm[k] + 1]])]

Permute(t, perm) ==
    PermuteTo(t, perm, [k \in 1..Len(t.shape) |-> t.shape[perm[k] + 1]],
              Strides(t.shape))

----------------------------------------------------------------------------
\* window_partition / window_reverse

window_partition(x, window_size) ==
    LET B == x.shape[1]
        H == x.shape[2]
        W == x.shape[3]
        C == x.shape[4]
        v == View(x, <<B, H \div window_size, window_size,
                       W \div window_size, window_size, C>>)
    IN  View(Permute(v, <<0, 1, 3, 2, 4, 5>>),
             <<B * (H \div window_size) * (W \div window_size),
               window_size, window_size, C>>)

\* A reverse that forgets to swap the window-row and grid-column axes back.
window_reverse_noperm(windows, window_size, H, W) ==
    LET B == (windows.shape[1] * window_size * window_size) \div (H * W)
    IN  View(windows, <<B, H, W, windows.shape[4]>>)

window_reverse(windows, window_size, H, W) ==
    LET \* int(windows.shape[0] / (H * W / window_size / window_size))
        B == (windows.shape[1] * window_size * window_size) \div (H * W)
        C == windows.shape[4]       \* the -1 of both views
        v == View(windows, <<B, H \div window_size, W \div window_size,
                             window_size, window_size, C>>)
    IN  View(Permute(v, <<0, 1, 3, 2, 4, 5>>), <<B, H, W, C>>)

----------------------------------------------------------------------------
\* image2patches / patches2image (einops.rearrange: reshape to the split
\* axes, transpose to the order of the right-hand side, reshape to merge)

\* rearrange(x, 'b c (hg h) (wg w) -> (hg wg b) c h w', hg=2, wg=2)
image2patches(x) ==
    LET b == x.shape[1]
        c == x.shape[2]
        h == x.shape[3] \div 2
        w == x.shape[4] \div 2
        v == View(x, <<b, c, 2, h, 2, w>>)
    IN  View(Permute(v, <<2, 4, 0, 1, 3, 5>>), <<2 * 2 * b, c, h, w>>)

\* A reassembly that takes the merged batch axis as (wg hg b).
patches2image_swapped(x) ==
    LET b == x.shape[1] \div 4
        c == x.shape[2]
        h == x.shape[3]
        w == x.shape[4]
        v == View(x, <<2, 2, b, c, h, w>>)
    IN  View(Permute(v, <<2, 3, 1, 4, 0, 5>>), <<b, c, 2 * h, 2 * w>>)

\* rearrange(x, '(hg wg b) c h w -> b c (hg h) (wg w)', hg=2, wg=2)
patches2image(x) ==
    LET b == x.shape[1] \div 4
        c == x.shape[2]
        h == x.shape[3]
        w == x.shape[4]
        v == View(x, <<2, 2, b, c, h, w>>)
    IN  View(Permute(v, <<2, 3, 0, 4, 1, 5>>), <<b, c, 2 * h, 2 * w>>)

----------------------------------------------------------------------------
\* SwinTransformerBlock.forward: the spatial bookkeeping

\* The value F.pad writes into the padding; real tokens are numbered from 1.
PadValue == 0

\* pad_r / pad_b: (window_size - n % window_size) % window_size
block_pad(n, window_size) ==
    (window_size - (n % window_size)) % window_size

\* Coordinates of flat offset m (0-based) in a contiguous (B, H, W, C) tensor.
RowOf(m, H, W, C) == (m \div (W * C)) % H
ColOf(m, W, C) == (m \div C) % W
ChanOf(m, C) == m % C
BatchOf(m, H, W, C) == m \div (H * W * C)

\* Flat offset (0-based) of (b, i, j, c) in a contiguous (B, H, W, C) tensor.
Offset(b, i, j, c, H, W, C) == ((b * H + i) * W + j) * C + c

\* F.pad(x, (0, 0, 0, pad_r, 0, pad_b)) on a (B, H, W, C) tensor: zeros are
\* appended at the right of every row and at the bottom of every image.
PadTo(data, B, H, W, C, Hp, Wp) ==
    [n \in 1..(B * Hp * Wp * C) |->
        IF RowOf(n - 1, Hp, Wp, C) < H /\ ColOf(n - 1, Wp, C) < W
        THEN data[Offset(BatchOf(n - 1, Hp, Wp, C), RowOf(n - 1, Hp, Wp, C),
                         ColOf(n - 1, Wp, C), ChanOf(n - 1, C), H, W, C) + 1]
        ELSE PadValue]

PadBottomRight(x, pad_r, pad_b) ==
    [shape |-> <<x.shape[1], x.shape[2] + pad_b, x.shape[3] + pad_r, x.shape[4]>>,
     data  |-> PadTo(x.data, x.shape[1], x.shape[2], x.shape[3], x.shape[4],
                     x.shape[2] + pad_b, x.shape[3] + pad_r)]

\* torch.roll(x, shifts=(s, s), dims=(1, 2)): the element at (i, j) moves to
\* ((i + s) mod H, (j + s) mod W).
RollData(data, s, B, H, W, C) ==
    [n \in 1..(B * H * W * C) |->
        data[Offset(BatchOf(n - 1, H, W, C), (RowOf(n - 1, H, W, C) - s) % H,
                    (ColOf(n - 1, W, C) - s) % W, ChanOf(n - 1, C), H, W, C) + 1]]

Roll(x, s) ==
    [shape |-> x.shape,
     data  |-> RollData(x.data, s, x.shape[1], x.shape[2], x.shape[3],
                        x.shape[4])]

\* x[:, :H, :W, :].contiguous()
CropData(data, B, H, W, C, Hp, Wp) ==
    [n \in 1..(B * H * W * C) |->
        data[Offset(BatchOf(n - 1, H, W, C), RowOf(n - 1, H, W, C),
                    ColOf(n - 1, W, C), ChanOf(n - 1, C), Hp, Wp, C) + 1]]

Crop(x, H, W) ==
    [shape |-> <<x.shape[1], H, W, x.shape[4]>>,
     data  |-> CropData(x.data, x.shape[1], H, W, x.shape[4],
                        x.shape[2], x.shape[3])]

\* The cyclic shift of line 146.
block_shift(x, shift_size) == Roll(x, -shift_size)

\* An inverse shift that rolls the same way as the forward shift.
block_unshift_same_way(x, shift_size) == Roll(x, -shift_size)

\* The inverse cyclic shift of line 157.
block_unshift(x, shift_size) == Roll(x, shift_size)

\* The attention of line 153 mixes the tokens of one window with each other;
\* replaced here by the identity on the (nW*B, ws*ws, C) window tensor.
AttnIdentity(x_windows) == x_windows

\* shortcut + drop_path(x): element n of the result is the sum of element n
\* of each operand, recorded as the pair of the two summands.
ResidualAdd(shortcut, x) ==
    [shape |-> shortcut.shape,
     data  |-> [n \in 1..Prod(shortcut.shape) |->
                    <<shortcut.data[n], x.data[n]>>]]

\* Lines 134-163 with H, W the resolution the stage stored on the block.
\* norm1 acts on each token alone and keeps its position.
block_forward(x0, H, W, window_size, shift_size) ==
    LET B == x0.shape[1]
        C == x0.shape[3]
        shortcut == x0
        x1 == View(x0, <<B, H, W, C>>)
        pad_r == block_pad(W, window_size)
        pad_b == block_pad(H, window_size)
        x2 == PadBottomRight(x1, pad_r, pad_b)
        Hp == x2.shape[2]
        Wp == x2.shape[3]
        shifted_x == IF shift_size > 0 THEN block_shift(x2, shift_size) ELSE x2
        x_windows == View(window_partition(shifted_x, window_size),
                          <<(Hp \div window_size) * (Wp \div window_size) * B,
                            window_size * window_size, C>>)
        attn_windows == View(AttnIdentity(x_windows),
                             <<x_windows.shape[1], window_size, window_size, C>>)
        shifted_y == window_reverse(attn_windows, window_size, Hp, Wp)
        x3 == IF shift_size > 0 THEN block_unshift(shifted_y, shift_size)
                                ELSE shifted_y
        x4 == IF pad_r > 0 \/ pad_b > 0 THEN Crop(x3, H, W) ELSE x3
        x5 == View(x4, <<B, H * W, C>>)
    IN  ResidualAdd(shortcut, x5)

----------------------------------------------------------------------------
GridInputs ==
    /\ gB \in 1..MaxB
    /\ gC \in 1..MaxC
    /\ gH \in 1..MaxHW
    /\ gW \in 1..MaxHW
    /\ gws = 0
    /\ gshift = 0
    /\ gop = "none"
    /\ gin = <<>>
    /\ gmid = <<>>
    /\ gout = <<>>

\* window_partition applied to a (B, H, W, C) grid; the view of line 54
\* needs H and W to be multiples of the window size.  gws and gshift are 0
\* until an operation that takes them has been applied.
ApplyWindowPartition ==
    /\ gop = "none"
    /\ \E window_size \in 1..MaxWs :
        /\ gH % window_size = 0
        /\ gW % window_size = 0
        /\ gws' = window_size
        /\ gin' = Iota(<<gB, gH, gW, gC>>)
        /\ gmid' = window_partition(gin', window_size)
    /\ gop' = "window_partition"
    /\ UNCHANGED <<gB, gH, gW, gC, gshift, gout, fieldVars, fwdVars, frames, lifeVars>>

ApplyWindowReverse ==
    /\ gop = "window_partition"
    /\ gout' = window_reverse(gmid, gws, gH, gW)
    /\ gop' = "window_reverse"
    /\ UNCHANGED <<gB, gH, gW, gC, gws, gshift, gin, gmid, fieldVars,
                   fwdVars, frames, lifeVars>>

\* image2patches applied to a (b, c, H, W) map; the pattern needs even H, W.
ApplyImage2Patches ==
    /\ gop = "none"
    /\ gH % 2 = 0
    /\ gW % 2 = 0
    /\ gin' = Iota(<<gB, gC, gH, gW>>)
    /\ gmid' = image2patches(gin')
    /\ gop' = "image2patches"
    /\ UNCHANGED <<gB, gH, gW, gC, gws, gshift, gout, fieldVars, fwdVars, frames, lifeVars>>

ApplyPatches2Image ==
    /\ gop = "image2patches"
    /\ gout' = patches2image(gmid)
    /\ gop' = "patches2image"
    /\ UNCHANGED <<gB, gH, gW, gC, gws, gshift, gin, gmid, fieldVars,
                   fwdVars, frames, lifeVars>>

\* One Shifted-Window Block on B*H*W tokens of C channels; the constructor
\* (line 123) admits window_size >= 1 with 0 <= shift_size < window_size.
ApplyBlockForward ==
    /\ gop = "none"
    /\ \E window_size \in 1..MaxWs :
       \E shift_size \in 0..(window_size - 1) :
        /\ gws' = window_size
        /\ gshift' = shift_size
        /\ gin' = Iota(<<gB, gH * gW, gC>>)
        /\ gout' = block_forward(gin', gH, gW, window_size, shift_size)
    /\ gop' = "block_forward"
    /\ UNCHANGED <<gB, gH, gW, gC, gmid, fieldVars, fwdVars, frames, lifeVars>>

\* The tensor functions are not in use.
GridIdle ==
    /\ gB = 0 /\ gH = 0 /\ gW = 0 /\ gC = 0 /\ gws = 0 /\ gshift = 0
    /\ gop = "none" /\ gin = <<>> /\ gmid = <<>> /\ gout = <<>>

----------------------------------------------------------------------------
\* Long-Range Fusion (MCLM): the positional-encoding fields

\* Python's None, and a field holding the value v.
None == <<>>
Some(v) == <<v>>

\* Python's round(n / d) for n >= 0, d > 0: to nearest, ties to even.
PyRound(n, d) ==
    LET q == n \div d
        r == n % d
    IN  IF 2 * r < d THEN q
        ELSE IF 2 * r > d THEN q + 1
        ELSE IF q % 2 = 0 THEN q ELSE q + 1

\* BEN_Base builds MCLM(emb_dim, 1, [1, 4, 8]).
pool_ratios == <<1, 4, 8>>

\* PositionEmbeddingSine.__call__(b, h, w) rearranged 'b c h w -> (h w) b c':
\* its values depend on (b, h, w) alone, so the triple stands for the tensor.
positional_encoding(b, h, w) == [b |-> b, h |-> h, w |-> w]

\* Tokens (first dimension) of one encoding and of a concatenation of them.
EncTokens(e) == e.h * e.w
RECURSIVE TokensOf(_)
TokensOf(items) ==
    IF items = <<>> THEN 0 ELSE EncTokens(Head(items)) + TokensOf(Tail(items))

\* self.p_poses is a Python list (line 389) until line 404 makes it a tensor.
EmptyList == [kind |-> "list", items |-> <<>>]

\* The frame of one MCLM.forward(l, g) call: l is (lb, c, h, w), g is
\* (gb, c, gh, gw); k is the pooling loop's position, pools the pooled maps.
MCLMFrame(lb, h, w, gb, gh, gw) ==
    [pc |-> "L389", lb |-> lb, h |-> h, w |-> w, gb |-> gb, gh |-> gh,
     gw |-> gw, k |-> 1, pools |-> <<>>, used |-> None, err |-> "none"]

\* Shape of adaptive_avg_pool2d(concated_locs, tgt_hw) for pooling ratio r.
PoolShape(fr, r) ==
    [b |-> fr.lb \div 4, h |-> PyRound(fr.h, r), w |-> PyRound(fr.w, r)]

Raise(fr, what) == [fr EXCEPT !.pc = "error", !.err = what]

LoopNext(fr) ==
    IF fr.k < Len(pool_ratios) THEN [fr EXCEPT !.pc = "L396", !.k = fr.k + 1]
                               ELSE [fr EXCEPT !.pc = "L403"]

\* x + y on dimension 0 broadcasts when the sizes agree or one of them is 1.
Broadcastable(m, n) == m = n \/ m = 1 \/ n = 1

\* A forward that keeps what the previous call left in the two fields.
MCLMReset_kept(F) == F

\* Lines 389-390: the fields are emptied at the start of every call.
MCLMReset(F) == [p_poses |-> EmptyList, g_pos |-> None]

\* One statement of MCLM.forward on the fields F = [p_poses, g_pos] of the
\* instance and the frame fr of the call; the label is the statement's line.
MCLMStep(F, fr) ==
    CASE fr.pc = "L389" ->
            [F  |-> [F EXCEPT !.p_poses = MCLMReset(F).p_poses],
             fr |-> [fr EXCEPT !.pc = "L390"]]
      [] fr.pc = "L390" ->
            [F  |-> [F EXCEPT !.g_pos = MCLMReset(F).g_pos],
             fr |-> [fr EXCEPT !.pc = "L396"]]
      [] fr.pc = "L396" ->
            [F  |-> F,
             fr |-> [fr EXCEPT !.pc = "L398",
                       !.pools = Append(@, PoolShape(fr, pool_ratios[fr.k]))]]
      [] fr.pc = "L398" ->
            [F  |-> F,
             fr |-> IF F.g_pos = None THEN [fr EXCEPT !.pc = "L401"]
                                      ELSE LoopNext(fr)]
      [] fr.pc = "L401" ->
            LET pool == fr.pools[fr.k]
                pos_emb == positional_encoding(pool.b, pool.h, pool.w)
            IN  IF F.p_poses.kind = "list"
                THEN [F  |-> [F EXCEPT !.p_poses.items = Append(@, pos_emb)],
                      fr |-> LoopNext(fr)]
                ELSE [F |-> F, fr |-> Raise(fr, "append on a tensor")]
      [] fr.pc = "L403" ->
            [F  |-> F,
             fr |-> IF F.g_pos = None THEN [fr EXCEPT !.pc = "L404"]
                                      ELSE [fr EXCEPT !.pc = "L408"]]
      [] fr.pc = "L404" ->
            IF F.p_poses.kind = "list" /\ F.p_poses.items # <<>>
            THEN [F  |-> [F EXCEPT !.p_poses.kind = "tensor"],
                  fr |-> [fr EXCEPT !.pc = "L405"]]
            ELSE [F |-> F, fr |-> Raise(fr, "torch.cat of no tensor list")]
      [] fr.pc = "L405" ->
            [F  |-> [F EXCEPT !.g_pos =
                        Some(positional_encoding(fr.gb, fr.gh, fr.gw))],
             fr |-> [fr EXCEPT !.pc = "L408"]]
      [] fr.pc = "L408" ->
            [F  |-> F,
             fr |-> IF F.p_poses.kind = "tensor"
                    THEN [fr EXCEPT !.pc = "L409"]
                    ELSE Raise(fr, "list has no .to")]
      [] fr.pc = "L409" ->
            [F  |-> F,
             fr |-> IF F.g_pos # None
                    THEN [fr EXCEPT !.pc = "L411"]
                    ELSE Raise(fr, "None has no .to")]
      [] fr.pc = "L411" ->
            [F  |-> F,
             fr |-> IF /\ F.g_pos # None
                       /\ F.p_poses.kind = "tensor"
                       /\ Broadcastable(fr.gh * fr.gw, EncTokens(F.g_pos[1]))
                       /\ Broadcastable(TokensOf(fr.pools),
                                        TokensOf(F.p_poses.items))
                    THEN [fr EXCEPT !.pc = "done",
                            !.used = Some([p_poses |-> F.p_poses.items,
                                           g_pos   |-> F.g_pos[1]])]
                    ELSE Raise(fr, "operands of + do not match")]
      [] OTHER -> [F |-> F, fr |-> fr]

MCLMEnded(fr) == fr.pc \in {"done", "error"}

\* The whole call, run without interruption.
RECURSIVE MCLMRun(_, _)
MCLMRun(F, fr) ==
    IF MCLMEnded(fr) THEN [F |-> F, fr |-> fr]
    ELSE MCLMRun(MCLMStep(F, fr).F, MCLMStep(F, fr).fr)

----------------------------------------------------------------------------
\* SwinTransformer (the backbone) on shapes

embed_dim == 128
patch_size == 4
num_layers == 4

RECURSIVE Pow2(_)
Pow2(i) == IF i = 0 THEN 1 ELSE 2 * Pow2(i - 1)

\* Channel counts that grow by embed_dim per stage instead of doubling.
num_features_linear(i) == embed_dim * (i + 1)

\* num_features[i] = int(embed_dim * 2 ** i)
num_features(i) == embed_dim * Pow2(i)

\* PatchEmbed.forward on one side: pad to a multiple of patch_size, then a
\* convolution of kernel and stride patch_size.
PatchEmbedSide(n) ==
    LET padded == IF n % patch_size # 0
                  THEN n + (patch_size - (n % patch_size)) ELSE n
    IN  padded \div patch_size

\* PatchMerging.forward on (B, H*W, C) tokens: pad H, W to even, gather the
\* four strided sub-grids, concatenate on channels, reduce 4C -> 2C.
PatchMerging(x, H, W) ==
    LET Hpad == H + (H % 2)
        Wpad == W + (W % 2)
    IN  [B |-> x.B, L |-> (Hpad \div 2) * (Wpad \div 2), C |-> 2 * x.C]

\* BasicLayer.forward, lines 221-225: what the stage hands to the next one.
StageDown(x, H, W, i) ==
    IF i < num_layers - 1
    THEN [x |-> PatchMerging(x, H, W),
          Wh |-> (H + 1) \div 2, Ww |-> (W + 1) \div 2]
    ELSE [x |-> x, Wh |-> H, Ww |-> W]

\* x_out.view(-1, H, W, num_features[i]).permute(0, 3, 1, 2): the batch
\* axis stays first, so tile n of the output is computed from tile n alone.
StageOut(x, H, W, i, tiles) ==
    [B |-> (x.B * x.L * x.C) \div (H * W * num_features(i)),
     C |-> num_features(i), H |-> H, W |-> W, tiles |-> tiles]

----------------------------------------------------------------------------
\* BEN_Base.forward

\* The quadrant each pixel of a 2 x 2 image lies in, as a (1, 1, 2, 2) map.
QuadrantMap ==
    [shape |-> <<1, 1, 2, 2>>, data |-> <<"q00", "q01", "q10", "q11">>]

Tile(i, part) == [img |-> i, part |-> part]

\* Line 525-526: the tiles of image i, in the order of the batch axis.
TilesOfImage(i) ==
    [n \in 1..4 |-> Tile(i, image2patches(QuadrantMap).data[n])]
        \o <<Tile(i, "glb")>>

\* features[k][start:end]
BatchSlice(tiles, start, end) ==
    SubSeq(tiles, start + 1, IF end < Len(tiles) THEN end ELSE Len(tiles))

\* A decoder that reuses the stride of the assembly loop (line 523).
DecodeStart_by4(i) == i * 4

\* Lines 534-535.
DecodeStart(i) == i * 5
DecodeEnd(i) == (i + 1) * 5

\* Tile sides of the inputs: an image is twice a tile on each side.
TileSides == {TileStep * k : k \in 1..MaxTileK}

\* Side of the images inference feeds to forward (rgb_loader_refiner).
InferenceSide == 1024

NoFrame == MCLMFrame(0, 0, 0, 0, 0, 0)

FieldsInit ==
    /\ blkHW = [i \in 0..(num_layers - 1) |-> None]
    /\ p_poses = EmptyList
    /\ g_pos = None
    /\ written = {}

FwdIdle ==
    /\ fpc = "idle"
    /\ real_batch = 0
    /\ imgHW = <<0, 0>>
    /\ fi = 0
    /\ final_input = <<>>
    /\ backboneCalls = 0
    /\ xcur = [B |-> 0, L |-> 0, C |-> 0, Wh |-> 0, Ww |-> 0]
    /\ outs = <<>>
    /\ reads = <<>>
    /\ mclmUsed = NoFrame
    /\ mclmPrev = NoFrame
    /\ outputs = <<>>
    /\ result = None

\* Lines 518-521: forward is entered with N images of H x W pixels.
Enter(N, H, W) ==
    /\ fpc \in {"idle", "returned", "raised"}
    /\ fpc' = "assemble"
    /\ real_batch' = N
    /\ imgHW' = <<H, W>>
    /\ fi' = 0
    /\ final_input' = <<>>
    /\ backboneCalls' = 0
    /\ xcur' = [B |-> 0, L |-> 0, C |-> 0, Wh |-> 0, Ww |-> 0]
    /\ outs' = <<>>
    /\ reads' = <<>>
    /\ UNCHANGED <<mclmUsed, mclmPrev>>
    /\ outputs' = <<>>
    /\ result' = None

\* forward called on a batch of N images.
ForwardEntry ==
    /\ \E N \in 1..MaxImages, th \in TileSides, tw \in TileSides :
            Enter(N, 2 * th, 2 * tw)
    /\ UNCHANGED <<fieldVars, gridVars, frames, lifeVars>>

\* forward called on a batch of N images of the fixed resolution.
ForwardFixedResolution ==
    /\ \E N \in 1..MaxImages : Enter(N, InferenceSide, InferenceSide)
    /\ UNCHANGED <<fieldVars, gridVars, frames, lifeVars>>

\* BEN_Base.inference, lines 576-584: the seed is set again, the image is
\* resized to 1024 x 1024 and forward runs on a batch of one.
InferenceEntry ==
    /\ Enter(1, InferenceSide, InferenceSide)
    /\ UNCHANGED <<fieldVars, gridVars, frames, lifeVars>>

\* Lines 522-530, one iteration: the four quadrants of image i and its
\* half-resolution view are appended to final_input.
AssembleTiles ==
    /\ fpc = "assemble"
    /\ final_input' = final_input \o TilesOfImage(fi)
    /\ fi' = IF fi + 1 < real_batch THEN fi + 1 ELSE 0
    /\ fpc' = IF fi + 1 < real_batch THEN "assemble" ELSE "backbone"
    /\ UNCHANGED <<real_batch, imgHW, backboneCalls, xcur, outs, reads,
                   mclmUsed, mclmPrev, outputs, result, fieldVars, gridVars, frames, lifeVars>>

\* Line 531 into SwinTransformer.forward, lines 298-305: the patch embedding
\* of all tiles; each tile is imgH/2 x imgW/2 pixels.
BackboneEmbed ==
    /\ fpc = "backbone"
    /\ backboneCalls' = backboneCalls + 1
    /\ LET Wh == PatchEmbedSide(imgHW[1] \div 2)
           Ww == PatchEmbedSide(imgHW[2] \div 2)
           B  == Len(final_input)
       IN  /\ outs' = <<[B |-> B, C |-> embed_dim, H |-> Wh, W |-> Ww,
                         tiles |-> final_input]>>
           /\ xcur' = [B |-> B, L |-> Wh * Ww, C |-> embed_dim,
                       Wh |-> Wh, Ww |-> Ww]
    /\ fpc' = "layer"
    /\ fi' = 0
    /\ UNCHANGED <<real_batch, imgHW, final_input, reads, mclmUsed, mclmPrev,
                   outputs, result, fieldVars, gridVars, frames, lifeVars>>

\* Lines 306-313, one iteration, with BasicLayer.forward (lines 203-225):
\* the stage stores H, W on each of its blocks (line 219), runs them, and
\* downsamples; the output before downsampling joins outs.
BackboneLayer ==
    /\ fpc = "layer"
    /\ LET x == [B |-> xcur.B, L |-> xcur.L, C |-> xcur.C]
           d == StageDown(x, xcur.Wh, xcur.Ww, fi)
       IN  /\ blkHW' = [blkHW EXCEPT ![fi] = Some(<<xcur.Wh, xcur.Ww>>)]
           /\ written' = written \cup {"SwinTransformerBlock.H",
                                       "SwinTransformerBlock.W"}
           /\ outs' = Append(outs, StageOut(x, xcur.Wh, xcur.Ww, fi,
                                            final_input))
           /\ xcur' = [B |-> d.x.B, L |-> d.x.L, C |-> d.x.C,
                       Wh |-> d.Wh, Ww |-> d.Ww]
    /\ fi' = IF fi + 1 < num_layers THEN fi + 1 ELSE 0
    /\ fpc' = IF fi + 1 < num_layers THEN "layer" ELSE "decode"
    /\ UNCHANGED <<real_batch, imgHW, final_input, backboneCalls, reads,
                   mclmUsed, mclmPrev, outputs, result, p_poses, g_pos, gridVars,
                   frames, lifeVars>>

\* The channel count of every decoder feature (line 478).
emb_dim == 128

\* Lines 484-488: the input channels of output1 .. output5, which read
\* features[0] .. features[4].
decoder_in_dims == <<128, 128, 256, 512, 1024>>

\* MCLM.forward (line 417) and MCRM.forward (line 449) re-tile the global
\* tile into 2 x 2 quadrants, which needs an even h and w; the result has
\* the shape of the five-tile batch.
fusion_out_shape(shape) ==
    IF shape[3] % 2 = 0 /\ shape[4] % 2 = 0 THEN Some(shape) ELSE None

\* An upsampling step that keeps the size.
rescale_to_same(n, scale_factor) == n

\* rescale_to(x, scale_factor) on one side: F.interpolate returns
\* floor(n * scale_factor), scale_factor = 2 by default.
rescale_to(n, scale_factor) == n * scale_factor

\* Lines 541-566 on shapes, for the five levels the backbone returned: the
\* decoder features are (5, emb_dim, H_k, W_k); resize_as gives its first
\* argument the size of the second, so every sum keeps the size of the finer
\* operand.
decoder_mask(levels) ==
    LET e == [k \in 1..5 |-> <<5, emb_dim, levels[k].H, levels[k].W>>]
    IN  IF \E k \in 1..5 : levels[k].C # decoder_in_dims[k]
        THEN [err |-> "RuntimeError: conv input channels", mask |-> None]
        ELSE IF fusion_out_shape(e[5]) = None
        THEN [err |-> "EinopsError in MCLM.forward", mask |-> None]
        ELSE IF \E k \in 1..4 : fusion_out_shape(e[k]) = None
        THEN [err |-> "EinopsError in MCRM.forward", mask |-> None]
        ELSE LET output1_cat == <<1, emb_dim, 2 * e[1][3], 2 * e[1][4]>>
                 first == <<rescale_to(output1_cat[3], 2),
                            rescale_to(output1_cat[4], 2)>>
                 second == <<rescale_to(first[1], 2), rescale_to(first[2], 2)>>
             IN  [err |-> "", mask |-> Some(<<1, 1, second[1], second[2]>>)]

\* Lines 533-567, one iteration: decoder pass i slices five tiles out of
\* every level, runs the Long-Range Fusion on the coarsest level (4 local
\* tiles, 1 global tile), decodes level by level and appends the mask of
\* image i; an exception inside the pass leaves forward.
DecodePass ==
    /\ fpc = "decode"
    /\ LET start == DecodeStart(fi)
           end   == DecodeEnd(fi)
           f     == [k \in 1..Len(outs) |->
                        BatchSlice(outs[k].tiles, start, end)]
           e5    == outs[Len(outs)]
           run   == MCLMRun([p_poses |-> p_poses, g_pos |-> g_pos],
                            MCLMFrame(4, e5.H, e5.W, 1, e5.H, e5.W))
           dec   == decoder_mask(outs)
       IN  /\ reads' = Append(reads, f)
           /\ p_poses' = run.F.p_poses
           /\ g_pos' = run.F.g_pos
           /\ mclmUsed' = run.fr
           /\ mclmPrev' = mclmUsed
           /\ IF run.fr.pc = "error" \/ dec.err # ""
              THEN /\ outputs' = outputs
                   /\ fi' = fi
                   /\ fpc' = "raised"
              ELSE /\ outputs' = Append(outputs,
                            [shallow |-> fi,
                             from |-> {f[k][n].img : k \in 1..Len(f),
                                                     n \in 1..Len(f[1])},
                             shape |-> dec.mask[1]])
                   /\ fi' = IF fi + 1 < real_batch THEN fi + 1 ELSE 0
                   /\ fpc' = IF fi + 1 < real_batch THEN "decode" ELSE "cat"
    /\ written' = written \cup {"MCLM.p_poses", "MCLM.g_pos"}
    /\ UNCHANGED <<real_batch, imgHW, final_input, backboneCalls, xcur, outs,
                   result, blkHW, gridVars, frames, lifeVars>>

\* Line 568: torch.cat(outputs, dim=0); the masks have one shape.
ForwardReturn ==
    /\ fpc = "cat"
    /\ fpc' = "returned"
    /\ result' = Some([shape  |-> <<Len(outputs), outputs[1].shape[2],
                                    outputs[1].shape[3], outputs[1].shape[4]>>,
                       images |-> [i \in 1..Len(outputs) |->
                                      outputs[i].shallow]])
    /\ UNCHANGED <<real_batch, imgHW, fi, final_input, backboneCalls, xcur,
                   outs, reads, mclmUsed, mclmPrev, outputs, fieldVars,
                   gridVars, frames, lifeVars>>

----------------------------------------------------------------------------
\* Two requests served at the same time by one model instance: each thread
\* runs MCLM.forward on the instance's p_poses / g_pos fields, one statement
\* at a time.

Threads == {"t1", "t2"}

IdleFrame == [NoFrame EXCEPT !.pc = "idle"]

ThreadsIdle == frames = [t \in Threads |-> IdleFrame]

RECURSIVE StageChain(_, _)
StageChain(n, i) == IF i = 0 THEN n ELSE StageChain((n + 1) \div 2, i - 1)

\* Side of the coarsest feature map of a tile: the patch embedding and the
\* num_layers - 1 downsampling stages.
CoarsestSide(tile) == StageChain(PatchEmbedSide(tile), num_layers - 1)

\* Lines 546-547 on thread t: MCLM.forward(loc_e5, glb_e5) is entered, on the
\* coarsest features of square tiles (inference makes every image square).
ConcCall(t) ==
    /\ frames[t].pc \in {"idle", "done", "error"}
    /\ \E th \in TileSides :
          frames' = [frames EXCEPT ![t] =
                        MCLMFrame(4, CoarsestSide(th), CoarsestSide(th),
                                  1, CoarsestSide(th), CoarsestSide(th))]
    /\ UNCHANGED <<fieldVars, fwdVars, gridVars, lifeVars>>

\* Thread t executes its next statement of MCLM.forward.
ConcStep(t) ==
    /\ frames[t].pc \notin {"idle", "done", "error"}
    /\ LET s == MCLMStep([p_poses |-> p_poses, g_pos |-> g_pos], frames[t])
       IN  /\ p_poses' = s.F.p_poses
           /\ g_pos' = s.F.g_pos
           /\ frames' = [frames EXCEPT ![t] = s.fr]
    /\ UNCHANGED <<blkHW, written, fwdVars, gridVars, lifeVars>>

----------------------------------------------------------------------------
\* Construction of a Shifted-Window Block and its Windowed Attention

\* WindowAttention.__init__, line 71: scale = head_dim ** -0.5 raises
\* ZeroDivisionError when head_dim = dim // num_heads is 0.
ScaleDefined(dim, num_heads) == dim \div num_heads # 0

\* WindowAttention.__init__, lines 67-71 and 85: divisibility is not
\* checked; head_dim is the floor of dim / num_heads.
WindowAttentionInit(dim, window_size, num_heads) ==
    [dim |-> dim, window_size |-> window_size, num_heads |-> num_heads,
     head_dim |-> dim \div num_heads, qkv_out |-> dim * 3]

\* SwinTransformerBlock.__init__: the assert of line 123 is the only check.
BlockInitOk(dim, num_heads, window_size, shift_size) ==
    0 <= shift_size /\ shift_size < window_size

\* WindowAttention.forward, line 94: the (B_, N, 3*dim) output of qkv is
\* reshaped to (B_, N, 3, num_heads, C // num_heads); reshape raises when
\* the element counts differ.
QkvReshapeOk(a, C) == a.qkv_out = 3 * a.num_heads * (C \div a.num_heads)

ConstructBlock ==
    /\ waResult = "none"
    /\ \E dim \in 1..MaxDim, num_heads \in 1..MaxHeads,
          window_size \in 1..MaxWs :
       \E shift_size \in 0..window_size :
          IF ~BlockInitOk(dim, num_heads, window_size, shift_size)
          THEN /\ wa' = None
               /\ waResult' = "AssertionError in __init__"
          ELSE IF ~ScaleDefined(dim, num_heads)
          THEN /\ wa' = None
               /\ waResult' = "ZeroDivisionError in __init__"
          ELSE /\ wa' = Some(WindowAttentionInit(dim, window_size, num_heads))
               /\ waResult' = "constructed"
    /\ UNCHANGED <<checkpoint, rpc, params, served, gridVars, fieldVars,
                   fwdVars, frames>>

\* The block's attention runs on windows of C = dim channels.
AttentionForward ==
    /\ waResult = "constructed"
    /\ waResult' = IF QkvReshapeOk(wa[1], wa[1].dim)
                   THEN "forward returned"
                   ELSE "RuntimeError in forward"
    /\ UNCHANGED <<wa, checkpoint, rpc, params, served, gridVars, fieldVars,
                   fwdVars, frames>>

----------------------------------------------------------------------------
\* BackgroundRemover: loading the parameters, then serving

\* The architecture declares parameters 1..NumParams, each of one shape and
\* of dtype float32; a checkpoint maps some keys to a shape and a dtype.
DeclaredKeys == 1..NumParams
UnexpectedKey == NumParams + 1
Declared == [shape |-> "declared", dtype |-> "float32"]

Entries == [shape : {"declared", "other"}, dtype : {"float32", "float16"}]

Checkpoints ==
    UNION {[keys -> Entries] :
              keys \in SUBSET (DeclaredKeys \cup {UnexpectedKey})}

Keys(sd) == DOMAIN sd

\* self.load_state_dict(sd, strict=True), line 572: a key of the module
\* absent from sd is missing, a key of sd absent from the module is
\* unexpected, a parameter of another shape is a size mismatch; any of them
\* raises.  A parameter of the right shape is copied into the module's
\* tensor, which converts it to the module's dtype.
load_state_dict(sd) ==
    LET missing == DeclaredKeys \ Keys(sd)
        unexpected == Keys(sd) \ DeclaredKeys
        mismatch == {k \in DeclaredKeys \cap Keys(sd) :
                        sd[k].shape # Declared.shape}
    IN  [raised |-> missing # {} \/ unexpected # {} \/ mismatch # {},
         params |-> [k \in DeclaredKeys |->
                        IF k \in Keys(sd) /\ sd[k].shape = Declared.shape
                        THEN Some(sd[k]) ELSE None]]

LifeIdle ==
    /\ wa = None
    /\ waResult = "none"
    /\ checkpoint = <<>>
    /\ rpc = "start"
    /\ params = <<>>
    /\ served = 0

LifeInit ==
    /\ wa = None
    /\ waResult = "none"
    /\ checkpoint \in Checkpoints
    /\ rpc = "start"
    /\ params = [k \in DeclaredKeys |-> None]
    /\ served = 0

\* BackgroundRemover.__init__ (lines 684-695): the model is built and
\* loadcheckpoints runs; an exception leaves __init__ and ends main.
LoadModel ==
    /\ rpc = "start"
    /\ LET r == load_state_dict(checkpoint)
       IN  /\ params' = r.params
           /\ rpc' = IF r.raised THEN "aborted" ELSE "ready"
    /\ UNCHANGED <<wa, waResult, checkpoint, served, gridVars, fieldVars,
                   fwdVars, frames>>

\* process_image (lines 702-707) on the constructed remover.
ProcessImage ==
    /\ rpc = "ready"
    /\ served < MaxServed
    /\ served' = served + 1
    /\ UNCHANGED <<wa, waResult, checkpoint, rpc, params, gridVars, fieldVars,
                   fwdVars, frames>>

----------------------------------------------------------------------------
\* BasicLayer.forward: the attention mask of a stage, and its use by the
\* shifted blocks of the stage

\* The default window size of BasicLayer and SwinTransformerBlock.
DefaultWindow == 7

\* BasicLayer.__init__: self.shift_size = window_size // 2
stage_shift(window_size) == window_size \div 2

\* np.ceil(n / window_size) on the integers
CeilDiv(n, window_size) ==
    IF n % window_size = 0 THEN n \div window_size
                           ELSE (n \div window_size) + 1

\* Lines 204-205: Hp, Wp = int(np.ceil(n / window_size)) * window_size
stage_pad(n, window_size) == CeilDiv(n, window_size) * window_size

\* The padding of a block that always appends window_size - n % window_size.
block_padded_full(n, window_size) == n + (window_size - (n % window_size))

\* Line 144: the side of x after F.pad by pad_b (pad_r) of lines 141-142.
block_padded(n, window_size) == n + block_pad(n, window_size)

\* A bound of a Python slice resolved against a dimension of length n.
SliceBound(v, n) ==
    IF v < 0 THEN (IF n + v < 0 THEN 0 ELSE n + v)
             ELSE (IF v > n THEN n ELSE v)

\* slice(start, stop) is <<start, Some(stop)>>; slice(start, None) is
\* <<start, None>>.  i is selected when it lies in the resolved range.
InSlice(i, sl, n) ==
    /\ SliceBound(sl[1], n) <= i
    /\ i < (IF sl[2] = None THEN n ELSE SliceBound(sl[2][1], n))

\* Lines 207-208: h_slices and w_slices (the same three slices).  Python's
\* -0 is 0, as the integer negation here.
mask_slices(window_size, shift_size) ==
    << <<0, Some(-window_size)>>,
       <<-window_size, Some(-shift_size)>>,
       <<-shift_size, None>> >>

\* Lines 209-213: the nested loops assign cnt = 0..8 to img_mask[:, h, w, :],
\* a later assignment overwriting an earlier one.
RECURSIVE FillRegions(_, _, _, _, _)
FillRegions(img, cnt, Hp, Wp, sl) ==
    IF cnt = 9 THEN img
    ELSE FillRegions(
            [n \in 1..(Hp * Wp) |->
                IF /\ InSlice(RowOf(n - 1, Hp, Wp, 1), sl[(cnt \div 3) + 1], Hp)
                   /\ InSlice(ColOf(n - 1, Wp, 1), sl[(cnt % 3) + 1], Wp)
                THEN cnt ELSE img[n]],
            cnt + 1, Hp, Wp, sl)

\* Lines 206-213: img_mask, a (1, Hp, Wp, 1) tensor of region labels.
img_mask(Hp, Wp, window_size, shift_size) ==
    [shape |-> <<1, Hp, Wp, 1>>,
     data  |-> FillRegions([n \in 1..(Hp * Wp) |-> 0], 0, Hp, Wp,
                           mask_slices(window_size, shift_size))]

\* masked_fill without the fill: the label difference itself.
MaskFill_raw(d) == d

\* Line 217: masked_fill(attn_mask != 0, -100.0).masked_fill(attn_mask == 0, 0.0)
MaskFill(d) ==
    LET first == IF d # 0 THEN -100 ELSE d
    IN  IF first = 0 THEN 0 ELSE first

\* Lines 214-217: mask_windows is (nW, N); attn_mask[w, i, j] is the filled
\* difference mask_windows[w, j] - mask_windows[w, i], a (nW, N, N) tensor.
stage_attn_mask(img, window_size) ==
    LET N == window_size * window_size
        nW == (img.shape[2] \div window_size) * (img.shape[3] \div window_size)
        mask_windows == window_partition(img, window_size).data
    IN  [shape |-> <<nW, N, N>>,
         data  |-> [n \in 1..(nW * N * N) |->
                     MaskFill(
                       mask_windows[((n - 1) \div (N * N)) * N + ((n - 1) % N) + 1]
                       - mask_windows[((n - 1) \div N) + 1])]]

\* Lines 204-217 for a stage whose tokens form an H x W grid.
StageMask(H, W, window_size) ==
    LET Hp == stage_pad(H, window_size)
        Wp == stage_pad(W, window_size)
        img == img_mask(Hp, Wp, window_size, stage_shift(window_size))
    IN  [Hp |-> Hp, Wp |-> Wp, img |-> img,
         labels |-> View(window_partition(img, window_size),
                         <<(Hp \div window_size) * (Wp \div window_size),
                           window_size * window_size>>)]

\* Lines 139-152 of a block whose stage stored H, W on it, followed on the
\* positions of the padded tensor: element p of x is position p of the
\* (B, Hp, Wp) grid that F.pad returned.
block_windows(B, H, W, window_size, shift_size) ==
    LET Hp == block_padded(H, window_size)
        Wp == block_padded(W, window_size)
        x == Iota(<<B, Hp, Wp, 1>>)
        shifted_x == IF shift_size > 0 THEN block_shift(x, shift_size) ELSE x
    IN  [Hp |-> Hp, Wp |-> Wp,
         x_windows |-> View(window_partition(shifted_x, window_size),
                            <<B * (Hp \div window_size) * (Wp \div window_size),
                              window_size * window_size, 1>>)]

\* Lines 145-150: a block passes the stage's mask only when it shifts.
block_attn_mask(shift_size, mask_matrix) ==
    IF shift_size > 0 THEN Some(mask_matrix) ELSE None

\* The mask row taken as if the window axis came before the batch axis.
MaskWindowOf_batch_last(k, nW, nB) == k \div nB

\* Line 104: attn.view(B_ // nW, nW, heads, N, N) + mask.unsqueeze(1)
\* .unsqueeze(0): flat window k is (k // nW, k % nW) and meets mask[k % nW].
MaskWindowOf(k, nW, nB) == k % nW

\* Lines 102-105: the term added to the logits of every head, a (B_, N, N)
\* tensor; None without a mask; the view raises when nW does not divide B_.
attention_mask_term(B_, N, mask) ==
    IF mask = None THEN [err |-> "", term |-> None]
    ELSE LET m == mask[1]
             nW == m.shape[1]
         IN  IF (B_ \div nW) * nW # B_ \/ m.shape[2] # N
             THEN [err |-> "RuntimeError: view / broadcast", term |-> None]
             ELSE [err |-> "",
                   term |-> Some(
                     [shape |-> <<B_, N, N>>,
                      data  |-> [n \in 1..(B_ * N * N) |->
                         m.data[MaskWindowOf((n - 1) \div (N * N), nW, B_ \div nW)
                                    * (N * N) + ((n - 1) % (N * N)) + 1]]])]

\* Grid sides and window sizes of a stage: the small ones, and a grid of
\* two default windows a side.
StageSides == (1..MaxHW) \cup {2 * DefaultWindow}
StageWindows == (1..MaxWs) \cup {DefaultWindow}

StageInputs ==
    /\ gB \in 1..MaxB
    /\ gC = 1
    /\ gH \in StageSides
    /\ gW \in StageSides
    /\ gws \in StageWindows
    /\ gshift = stage_shift(gws)
    /\ gop = "none"
    /\ gin = <<>>
    /\ gmid = <<>>
    /\ gout = <<>>

\* BasicLayer.forward, lines 204-217.
BuildStageMask ==
    /\ gop = "none"
    /\ gmid' = StageMask(gH, gW, gws)
    /\ gout' = stage_attn_mask(gmid'.img, gws)
    /\ gop' = "attn_mask"
    /\ UNCHANGED <<gB, gH, gW, gC, gws, gshift, gin, fieldVars, fwdVars,
                   frames, lifeVars>>

\* BasicLayer.forward, lines 218-220, for one block of the stage: the blocks
\* alternate shift 0 and window_size // 2 (line 199).
RunStageBlock ==
    /\ gop = "attn_mask"
    /\ \E shift_size \in {0, gws \div 2} :
        LET w == block_windows(gB, gH, gW, gws, shift_size)
            a == attention_mask_term(w.x_windows.shape[1], w.x_windows.shape[2],
                                     block_attn_mask(shift_size, gout))
        IN  gin' = [shift_size |-> shift_size, Hp |-> w.Hp, Wp |-> w.Wp,
                    x_windows |-> w.x_windows, err |-> a.err, term |-> a.term]
    /\ gop' = "block"
    /\ UNCHANGED <<gB, gH, gW, gC, gws, gshift, gmid, gout, fieldVars,
                   fwdVars, frames, lifeVars>>

----------------------------------------------------------------------------
\* WindowAttention: the relative-position index and bias

\* Lines 74-77: coords_flatten[d, t] for token t of a (wh x ww) window,
\* d = 0 the row and d = 1 the column (meshgrid, then flatten(1)).
coords_flatten(d, t, ww) == IF d = 0 THEN t \div ww ELSE t % ww

\* Line 78: relative_coords[d, i, j] = coords_flatten[d, i] - coords_flatten[d, j]
relative_coords(d, i, j, ww) ==
    coords_flatten(d, i, ww) - coords_flatten(d, j, ww)

\* The index without the scaling of line 82.
relative_position_index_unscaled(wh, ww) ==
    LET N == wh * ww
    IN  [shape |-> <<N, N>>,
         data  |-> [n \in 1..(N * N) |->
                     (relative_coords(0, (n - 1) \div N, (n - 1) % N, ww) + (wh - 1))
                     + (relative_coords(1, (n - 1) \div N, (n - 1) % N, ww)
                            + (ww - 1))]]

\* Lines 79-83: both offsets are made non-negative, the row offset is scaled
\* by 2 * ww - 1, and the two are summed.
relative_position_index(wh, ww) ==
    LET N == wh * ww
    IN  [shape |-> <<N, N>>,
         data  |-> [n \in 1..(N * N) |->
                     (relative_coords(0, (n - 1) \div N, (n - 1) % N, ww) + (wh - 1))
                        * (2 * ww - 1)
                     + (relative_coords(1, (n - 1) \div N, (n - 1) % N, ww)
                            + (ww - 1))]]

\* Lines 72-73: the bias table, one row per index value and one column per
\* head; cell (t, h) is named by its position in memory.
relative_position_bias_table(wh, ww, num_heads) ==
    Iota(<<(2 * wh - 1) * (2 * ww - 1), num_heads>>)

\* Lines 98-100: table[index.view(-1)].view(N, N, -1).permute(2, 0, 1)
relative_position_bias(a) ==
    LET N == a.window_size[1] * a.window_size[2]
        heads == a.num_heads
        rows == [shape |-> <<N, N, heads>>,
                 data  |-> [n \in 1..(N * N * heads) |->
                     a.relative_position_bias_table.data[
                        a.relative_position_index.data[((n - 1) \div heads) + 1]
                            * heads + ((n - 1) % heads) + 1]]]
    IN  Permute(rows, <<2, 0, 1>>)

\* WindowAttention.__init__ for a (wh, ww) window.
ConstructAttention ==
    /\ waResult = "none"
    /\ \E dim \in 1..MaxDim, num_heads \in 1..MaxHeads,
          wh \in 1..MaxWs, ww \in 1..MaxWs :
          IF ~ScaleDefined(dim, num_heads)
          THEN /\ wa' = None
               /\ waResult' = "ZeroDivisionError in __init__"
          ELSE /\ wa' = Some(
                    [dim |-> dim, window_size |-> <<wh, ww>>,
                     num_heads |-> num_heads,
                     relative_position_bias_table |->
                        relative_position_bias_table(wh, ww, num_heads),
                     relative_position_index |->
                        relative_position_index(wh, ww),
                     bias |-> None])
               /\ waResult' = "attention constructed"
    /\ UNCHANGED <<checkpoint, rpc, params, served, gridVars, fieldVars,
                   fwdVars, frames>>

\* WindowAttention.forward, lines 98-101: the bias added to the logits.
AttentionBias ==
    /\ waResult = "attention constructed"
    /\ wa' = Some([wa[1] EXCEPT !.bias = Some(relative_position_bias(wa[1]))])
    /\ waResult' = "bias added"
    /\ UNCHANGED <<checkpoint, rpc, params, served, gridVars, fieldVars,
                   fwdVars, frames>>

----------------------------------------------------------------------------
\* PatchMerging.forward on tensors, and the downsampling step of a stage

\* A larger grid side and channel count for Patch Merging.
MergeSide == 8
MergeChannels == 16

\* No padding of an odd side.
merge_pad_none(n) == 0

\* Line 180: F.pad(x, (0, 0, 0, W % 2, 0, H % 2))
merge_pad(n) == n % 2

\* len(range(start, n, 2)): the length of the slice start::2 of an axis.
StridedCount(start, n) ==
    IF n <= start THEN 0 ELSE ((n - start) + 1) \div 2

\* Lines 181-184: x[:, a::2, b::2, :] of a (B, H, W, C) tensor.
StridedSlice(x, a, b) ==
    LET B == x.shape[1]
        H == x.shape[2]
        W == x.shape[3]
        C == x.shape[4]
        h == StridedCount(a, H)
        w == StridedCount(b, W)
    IN  [shape |-> <<B, h, w, C>>,
         data  |-> [n \in 1..(B * h * w * C) |->
                     x.data[Offset(BatchOf(n - 1, h, w, C),
                                   2 * RowOf(n - 1, h, w, C) + a,
                                   2 * ColOf(n - 1, w, C) + b,
                                   ChanOf(n - 1, C), H, W, C) + 1]]]

\* Line 185: torch.cat(ts, -1) of tensors of one shape (B, h, w, C).
CatLast(ts) ==
    LET s == ts[1].shape
        C == s[4]
        K == Len(ts)
    IN  [shape |-> <<s[1], s[2], s[3], K * C>>,
         data  |-> [n \in 1..(s[1] * s[2] * s[3] * K * C) |->
                     ts[(((n - 1) % (K * C)) \div C) + 1].data[
                        ((n - 1) \div (K * C)) * C + ((n - 1) % C) + 1]]]

\* Lines 187-188: norm and Linear(4 * dim, 2 * dim) act on each token alone;
\* every output channel of a token depends on all its 4 * dim inputs, kept
\* here as the token's input row.
merge_reduction(x) ==
    LET B == x.shape[1]
        L == x.shape[2]
        C4 == x.shape[3]
    IN  [shape  |-> <<B, L, 2 * (C4 \div 4)>>,
         tokens |-> [t \in 1..(B * L) |->
                        [c \in 1..C4 |-> x.data[(t - 1) * C4 + c]]]]

\* PatchMerging.forward, lines 175-189.
patch_merging_forward(x, H, W) ==
    LET B == x.shape[1]
        L == x.shape[2]
        C == x.shape[3]
    IN  IF L # H * W
        THEN [err |-> "AssertionError: input feature has wrong size",
              out |-> None]
        ELSE
        LET x1 == View(x, <<B, H, W, C>>)
            pad_input == (H % 2 = 1) \/ (W % 2 = 1)
            xp == IF pad_input
                  THEN PadBottomRight(x1, merge_pad(W), merge_pad(H)) ELSE x1
            x0 == StridedSlice(xp, 0, 0)
            x_1 == StridedSlice(xp, 1, 0)
            x2 == StridedSlice(xp, 0, 1)
            x3 == StridedSlice(xp, 1, 1)
        IN  IF x_1.shape # x0.shape \/ x2.shape # x0.shape \/ x3.shape # x0.shape
            THEN [err |-> "RuntimeError: torch.cat sizes differ", out |-> None]
            ELSE LET cat == CatLast(<<x0, x_1, x2, x3>>)
                     v == View(cat, <<B, Prod(cat.shape) \div (B * 4 * C), 4 * C>>)
                 IN  [err |-> "", out |-> Some(merge_reduction(v))]

MergeInputs ==
    /\ gB \in 1..MaxB
    /\ gC \in (1..MaxC) \cup {MergeChannels}
    /\ gH \in (1..MaxHW) \cup {MergeSide}
    /\ gW \in (1..MaxHW) \cup {MergeSide}
    /\ gws = 0
    /\ gshift = 0
    /\ gop = "none"
    /\ gin = <<>>
    /\ gmid = <<>>
    /\ gout = <<>>

\* BasicLayer.forward, lines 221-224: the stage downsamples its H x W tokens
\* and reports Wh, Ww to the next stage.
ApplyDownsample ==
    /\ gop = "none"
    /\ gin' = Iota(<<gB, gH * gW, gC>>)
    /\ gmid' = patch_merging_forward(gin', gH, gW)
    /\ gout' = <<(gH + 1) \div 2, (gW + 1) \div 2>>
    /\ gop' = "downsample"
    /\ UNCHANGED <<gB, gH, gW, gC, gws, gshift, fieldVars, fwdVars, frames,
                   lifeVars>>

----------------------------------------------------------------------------
\* Long-Range Fusion (MCLM) and Multi-Scale Routing Fusion (MCRM) on tensors
\* of a batch of five tiles (4 local tiles, then 1 global tile)

\* x.split([4, 1], dim=0) of a (5, c, h, w) batch (lines 448 and 546).
SplitLocal(x) ==
    [shape |-> <<4, x.shape[2], x.shape[3], x.shape[4]>>,
     data  |-> [n \in 1..(4 * x.shape[2] * x.shape[3] * x.shape[4]) |->
                    x.data[n]]]

SplitGlobal(x) ==
    [shape |-> <<1, x.shape[2], x.shape[3], x.shape[4]>>,
     data  |-> [n \in 1..(x.shape[2] * x.shape[3] * x.shape[4]) |->
                    x.data[4 * x.shape[2] * x.shape[3] * x.shape[4] + n]]]

\* torch.cat((a, b), 0) of contiguous tensors that agree on the other axes.
Cat0(a, b) ==
    [shape |-> [k \in 1..Len(a.shape) |->
                    IF k = 1 THEN a.shape[1] + b.shape[1] ELSE a.shape[k]],
     data  |-> [n \in 1..(Prod(a.shape) + Prod(b.shape)) |->
                    IF n <= Prod(a.shape) THEN a.data[n]
                                          ELSE b.data[n - Prod(a.shape)]]]

\* torch.cat((a, b), 1) of (T, A, c) and (T, B, c) tensors.
Cat1(a, b) ==
    LET T == a.shape[1]
        A == a.shape[2]
        B == b.shape[2]
        c == a.shape[3]
    IN  [shape |-> <<T, A + B, c>>,
         data  |-> [n \in 1..(T * (A + B) * c) |->
                     LET t == (n - 1) \div ((A + B) * c)
                         k == ((n - 1) \div c) % (A + B)
                         ch == (n - 1) % c
                     IN  IF k < A THEN a.data[(t * A + k) * c + ch + 1]
                                  ELSE b.data[(t * B + (k - A)) * c + ch + 1]]]

\* x[:, i, :] of a (T, B, c) tensor: chunk i of x.chunk(B, dim=1).
Chunk1(x, i) ==
    LET T == x.shape[1]
        B == x.shape[2]
        c == x.shape[3]
    IN  [shape |-> <<T, 1, c>>,
         data  |-> [n \in 1..(T * c) |->
                     x.data[(((n - 1) \div c) * B + i) * c + ((n - 1) % c) + 1]]]

\* rearrange(x, 'b c h w -> (h w) b c')
TokensFirst(x) ==
    View(Permute(x, <<2, 3, 0, 1>>),
         <<x.shape[3] * x.shape[4], x.shape[1], x.shape[2]>>)

\* The rearrangement back to spatial form with h and w exchanged.
TokensLast_transposed(x, h, w) ==
    Permute(View(x, <<w, h, x.shape[2], x.shape[3]>>), <<2, 3, 0, 1>>)

\* rearrange(x, '(h w) b c -> b c h w', h=h, w=w)
TokensLast(x, h, w) ==
    Permute(View(x, <<h, w, x.shape[2], x.shape[3]>>), <<2, 3, 0, 1>>)

\* The re-tiling with the two quadrant axes merged in the order (nw ng b).
global_quadrants_transposed(g_hw_b_c, h, w) ==
    LET c == g_hw_b_c.shape[3]
        v == View(g_hw_b_c, <<2, h \div 2, 2, w \div 2, 1, c>>)
    IN  View(Permute(v, <<1, 3, 2, 0, 4, 5>>),
             <<(h \div 2) * (w \div 2), 4, c>>)

\* Lines 416-417: the updated global tokens as an h x w grid, re-tiled with
\* '(ng h) (nw w) b c -> (h w) (ng nw b) c', ng = nw = 2.
global_quadrants(g_hw_b_c, h, w) ==
    LET c == g_hw_b_c.shape[3]
        v == View(g_hw_b_c, <<2, h \div 2, 2, w \div 2, 1, c>>)
    IN  View(Permute(v, <<1, 3, 0, 2, 4, 5>>),
             <<(h \div 2) * (w \div 2), 4, c>>)

\* The elements of a tensor, as a set.
Elements(t) == {t.data[n] : n \in 1..Prod(t.shape)}

\* Lines 410-427 of MCLM.forward(l, g).  Attention, normalisation and the
\* feed-forward return one token per query token, so an element of the
\* updated l (g) is named by the element of l (g) it updates; attn records,
\* per local tile, the attention instance and the keys it was given.
mclm_fuse(l, g) ==
    LET c == l.shape[2]
        h == l.shape[3]
        w == l.shape[4]
        g_hw_b_c == TokensFirst(g)
        l_hw_b_c == TokensFirst(l)
    IN  IF g_hw_b_c.shape[1] # h * w
        THEN [err |-> "EinopsError: line 416", out |-> None, attn |-> <<>>]
        ELSE IF h % 2 # 0 \/ w % 2 # 0
        THEN [err |-> "EinopsError: line 417", out |-> None, attn |-> <<>>]
        ELSE LET q == global_quadrants(g_hw_b_c, h, w)
             IN  [err |-> "",
                  attn |-> [i \in 1..4 |->
                              [instance |-> (i - 1) + 1,
                               query |-> Elements(Chunk1(l_hw_b_c, i - 1)),
                               keys |-> Elements(Chunk1(q, i - 1))]],
                  out |-> Some(TokensLast(Cat1(l_hw_b_c, g_hw_b_c), h, w))]

\* F.interpolate(x, size=(H2, W2), mode='nearest') of a (b, c, h, w) tensor:
\* output (Y, X) reads input (floor(Y * h / H2), floor(X * w / W2)).
InterpolateNearest(x, H2, W2) ==
    LET b == x.shape[1]
        c == x.shape[2]
        h == x.shape[3]
        w == x.shape[4]
    IN  [shape |-> <<b, c, H2, W2>>,
         data  |-> [n \in 1..(b * c * H2 * W2) |->
                     x.data[((n - 1) \div (H2 * W2)) * (h * w)
                            + (((((n - 1) \div W2) % H2) * h) \div H2) * w
                            + ((((n - 1) % W2) * w) \div W2) + 1]]]

\* adaptive_avg_pool2d: output cell o of T along an axis of length n
\* averages the inputs floor(o*n/T) .. ceil((o+1)*n/T) - 1.
PoolCells(o, n, T) == ((o * n) \div T)..((((o + 1) * n + T - 1) \div T) - 1)

\* F.adaptive_avg_pool2d(x, (th, tw)) followed by
\* rearrange('nl c h w -> nl c (h w)'): a pooled element is named by the set
\* of input elements it averages.
AdaptivePool(x, th, tw) ==
    LET nl == x.shape[1]
        c == x.shape[2]
        h == x.shape[3]
        w == x.shape[4]
    IN  [shape |-> <<nl, c, th * tw>>,
         data  |-> [n \in 1..(nl * c * th * tw) |->
                     {x.data[((n - 1) \div (th * tw)) * (h * w) + i * w + j + 1] :
                        i \in PoolCells(((n - 1) \div tw) % th, h, th),
                        j \in PoolCells((n - 1) % tw, w, tw)}]]

\* Lines 453-458: the pooled context of each tile of patched_glb, over all
\* pooling ratios: the input elements that the keys of tile i average.
RECURSIVE PooledSources(_, _, _, _, _)
PooledSources(patched_glb, h, w, ratios, i) ==
    IF ratios = <<>> THEN {}
    ELSE LET p == AdaptivePool(patched_glb, PyRound(h, Head(ratios)),
                               PyRound(w, Head(ratios)))
             per == p.shape[2] * p.shape[3]
         IN  UNION {p.data[i * per + n] : n \in 1..per}
                \cup PooledSources(patched_glb, h, w, Tail(ratios), i)

\* MCRM.forward(x), lines 446-472, for an instance with the given pooling
\* ratios.  sal names the elements of the saliency map sigmoid(sal_conv(glb))
\* by position; gate is the map each local tile is multiplied with.
mcrm_forward(x, ratios) ==
    LET b == x.shape[1]
        c == x.shape[2]
        h == x.shape[3]
        w == x.shape[4]
    IN  IF b # 5
        THEN [err |-> "RuntimeError: split", out |-> None, attn |-> <<>>,
              gate |-> None, up |-> None]
        ELSE IF h % 2 # 0 \/ w % 2 # 0
        THEN [err |-> "EinopsError: line 449", out |-> None, attn |-> <<>>,
              gate |-> None, up |-> None]
        ELSE
        LET loc == SplitLocal(x)
            glb == SplitGlobal(x)
            patched_glb == image2patches(glb)
            sal == Iota(<<1, 1, h, w>>)
            up == InterpolateNearest(sal, 2 * h, 2 * w)
            gate == image2patches(up)
            loc_ == View(Permute(View(loc, <<4, c, h * w>>), <<0, 2, 1>>),
                         <<4, h * w, 1, c>>)
            src0 == Permute(View(loc, <<4, c, h * w>>), <<2, 0, 1>>)
            src == View(Permute(src0, <<1, 2, 0>>), <<4, c, h, w>>)
            back == InterpolateNearest(patches2image(src), h, w)
        IN  [err |-> "",
             attn |-> [i \in 1..4 |->
                         [instance |-> i - 1,
                          query |-> {loc_.data[(i - 1) * h * w * c + n] :
                                        n \in 1..(h * w * c)},
                          keys |-> PooledSources(patched_glb, h, w, ratios,
                                                 i - 1)]],
             gate |-> Some(gate),
             up |-> Some(up),
             out |-> IF back.shape = glb.shape THEN Some(Cat0(src, glb))
                                               ELSE None]

\* The pooling ratios of the four MCRM instances of BEN_Base.
mcrm_pool_ratios == <<2, 4, 8>>

\* The largest side of a tile handed to a fusion module.
MaxTileHW == 6

FusionInputs ==
    /\ gB = 5
    /\ gC \in 1..MaxC
    /\ gH \in 1..MaxTileHW
    /\ gW \in 1..MaxTileHW
    /\ gws = 0
    /\ gshift = 0
    /\ gop = "none"
    /\ gin = <<>>
    /\ gmid = <<>>
    /\ gout = <<>>

\* Lines 546-547: e5 is split into 4 local tiles and 1 global tile and
\* handed to MCLM.forward (lines 388-427).
ApplyMCLM ==
    /\ gop = "none"
    /\ gin' = Iota(<<gB, gC, gH, gW>>)
    /\ LET run == MCLMRun([p_poses |-> p_poses, g_pos |-> g_pos],
                          MCLMFrame(4, gH, gW, 1, gH, gW))
       IN  /\ p_poses' = run.F.p_poses
           /\ g_pos' = run.F.g_pos
           /\ gmid' = run.fr
           /\ gout' = IF run.fr.pc = "error"
                      THEN [err |-> run.fr.err, out |-> None, attn |-> <<>>]
                      ELSE mclm_fuse(SplitLocal(gin'), SplitGlobal(gin'))
    /\ written' = written \cup {"MCLM.p_poses", "MCLM.g_pos"}
    /\ gop' = "MCLM"
    /\ UNCHANGED <<gB, gH, gW, gC, gws, gshift, blkHW, fwdVars, frames,
                   lifeVars>>

\* Lines 548-554: a batch of five tiles handed to MCRM.forward (445-472).
ApplyMCRM ==
    /\ gop = "none"
    /\ gin' = Iota(<<gB, gC, gH, gW>>)
    /\ gmid' = mcrm_pool_ratios
    /\ gout' = mcrm_forward(gin', mcrm_pool_ratios)
    /\ gop' = "MCRM"
    /\ UNCHANGED <<gB, gH, gW, gC, gws, gshift, fieldVars, fwdVars, frames,
                   lifeVars>>

----------------------------------------------------------------------------
\* The output head of forward: the final convolution and the sigmoid

\* Logits are the integers -MaxLogit .. MaxLogit; a mask of the output head
\* has up to MaxPixels pixels.
MaxLogit == 8
MaxPixels == 2

\* Real numbers are kept in fixed point: the integer q stands for q / FixScale.
FixScale == Pow2(8)

\* exp overflows to infinity above this argument, as a float exp does.
ExpOverflow == MaxLogit - 2

\* exp(z) in fixed point, e taken as 2718 / 1000: an integer, or "inf" when
\* it overflows; for z < 0 it underflows to 0.
RECURSIVE ExpFix(_)
ExpFix(z) ==
    IF z = 0 THEN FixScale
    ELSE IF z > 0 THEN (ExpFix(z - 1) * 2718) \div 1000
    ELSE (ExpFix(z + 1) * 1000) \div 2718

\* The output head without its activation: the logit itself.
sigmoid_none(x) == x * FixScale

\* Line 566: final_output.sigmoid() = 1 / (1 + exp(-x)), per element.
sigmoid(x) ==
    IF -x > ExpOverflow THEN 0
    ELSE (FixScale * FixScale) \div (FixScale + ExpFix(-x))

\* The logits self.output returned for one image: a (1, 1, 1, W) tensor.
HeadInputs ==
    /\ gB = 1
    /\ gC = 1
    /\ gH = 1
    /\ gW \in 1..MaxPixels
    /\ gws = 0
    /\ gshift = 0
    /\ gop = "none"
    /\ gin \in {[shape |-> <<1, 1, 1, gW>>, data |-> d] :
                    d \in [1..gW -> (-MaxLogit)..MaxLogit]}
    /\ gmid = <<>>
    /\ gout = <<>>

\* Lines 565-567: the logits of the final convolution go through the
\* sigmoid and the mask is appended to outputs.
ApplyOutputHead ==
    /\ gop = "none"
    /\ gout' = [shape |-> gin.shape,
                data  |-> [n \in 1..Prod(gin.shape) |-> sigmoid(gin.data[n])]]
    /\ gop' = "sigmoid"
    /\ UNCHANGED <<gB, gH, gW, gC, gws, gshift, gin, gmid, fieldVars, fwdVars,
                   frames, lifeVars>>

----------------------------------------------------------------------------
\* Specifications

\* The tensor functions applied to bounded inputs.
GridInit == GridInputs /\ FieldsInit /\ FwdIdle /\ ThreadsIdle /\ LifeIdle

GridNext ==
    \/ ApplyWindowPartition
    \/ ApplyWindowReverse
    \/ ApplyImage2Patches
    \/ ApplyPatches2Image
    \/ ApplyBlockForward

SpecGrid == GridInit /\ [][GridNext]_vars

\* One model instance serving forward calls one after the other.
FwdInit == GridIdle /\ FieldsInit /\ FwdIdle /\ ThreadsIdle /\ LifeIdle

FwdNext ==
    \/ InferenceEntry
    \/ ForwardEntry
    \/ ForwardFixedResolution
    \/ AssembleTiles
    \/ BackboneEmbed
    \/ BackboneLayer
    \/ DecodePass
    \/ ForwardReturn

SpecFwd == FwdInit /\ [][FwdNext]_vars

\* One model instance serving two requests at once.
ConcInit == GridIdle /\ FieldsInit /\ FwdIdle /\ ThreadsIdle /\ LifeIdle

ConcNext == \E t \in Threads : ConcCall(t) \/ ConcStep(t)

SpecConc == ConcInit /\ [][ConcNext]_vars

\* Construction of the modules, loading of a checkpoint, serving.
BuildInit == GridIdle /\ FieldsInit /\ FwdIdle /\ ThreadsIdle /\ LifeInit

BuildNext ==
    \/ ConstructBlock
    \/ AttentionForward
    \/ LoadModel
    \/ ProcessImage

SpecBuild == BuildInit /\ [][BuildNext]_vars

\* One stage: its attention mask, then one of its blocks.
StageInit == StageInputs /\ FieldsInit /\ FwdIdle /\ ThreadsIdle /\ LifeIdle

StageNext ==
    \/ BuildStageMask
    \/ RunStageBlock

SpecStage == StageInit /\ [][StageNext]_vars

\* One Windowed Attention: construction, then the bias of a forward.
AttnInit == GridIdle /\ FieldsInit /\ FwdIdle /\ ThreadsIdle /\ LifeIdle

AttnNext ==
    \/ ConstructAttention
    \/ AttentionBias

SpecAttn == AttnInit /\ [][AttnNext]_vars

\* The downsampling step of a stage on bounded grids.
MergeInit == MergeInputs /\ FieldsInit /\ FwdIdle /\ ThreadsIdle /\ LifeIdle

MergeNext == ApplyDownsample

SpecMerge == MergeInit /\ [][MergeNext]_vars

\* One fusion module applied to a batch of five tiles.
FusionInit == FusionInputs /\ FieldsInit /\ FwdIdle /\ ThreadsIdle /\ LifeIdle

FusionNext ==
    \/ ApplyMCLM
    \/ ApplyMCRM

SpecFusion == FusionInit /\ [][FusionNext]_vars

\* The output head applied to bounded logits.
HeadInit == HeadInputs /\ FieldsInit /\ FwdIdle /\ ThreadsIdle /\ LifeIdle

HeadNext == ApplyOutputHead

SpecHead == HeadInit /\ [][HeadNext]_vars

----------------------------------------------------------------------------
\* C1: window_reverse(window_partition(x, ws), ws, H, W) is x, element for
\* element and with x's shape, whenever H and W are multiples of ws.
C1_WindowRoundTrip ==
    gop = "window_reverse" => gout = gin

C1_Witness ==
    /\ gop = "window_reverse"
    /\ gB > 1 /\ gC > 1
    /\ gws > 1 /\ gH > gws /\ gW > gws
    /\ gmid.data # gin.data
    /\ gout = gin

\* C2: patches2image(image2patches(x)) is x for even H, W, and tile
\* (2*hg + wg)*b_total + b of image2patches(x) is quadrant (hg, wg) of image
\* b: the quadrants come out in row-major order (0,0), (0,1), (1,0), (1,1).
C2_QuadrantRoundTrip ==
    /\ gop = "patches2image" => gout = gin
    /\ gop \in {"image2patches", "patches2image"} =>
         /\ gmid.shape = <<4 * gB, gC, gH \div 2, gW \div 2>>
         /\ \A hg \in 0..1, wg \in 0..1, b \in 0..(gB - 1), c \in 0..(gC - 1),
               i \in 0..(gH \div 2 - 1), j \in 0..(gW \div 2 - 1) :
              At(gmid, <<(2 * hg + wg) * gB + b, c, i, j>>)
                = At(gin, <<b, c, hg * (gH \div 2) + i, wg * (gW \div 2) + j>>)

C2_Witness ==
    /\ gop = "patches2image"
    /\ gB > 1 /\ gC > 1 /\ gH > 2 /\ gW > 2
    /\ gmid.data # gin.data
    /\ gout = gin

\* C10: with the attention replaced by the identity, a Shifted-Window Block
\* returns every token to its own position: the output has the input's
\* (B, H*W, C) shape and the residual add pairs each element with itself,
\* for every H, W >= 1, window size >= 1 and shift in [0, window size).
C10_BlockBookkeeping ==
    gop = "block_forward" =>
        /\ gout.shape = <<gB, gH * gW, gC>>
        /\ \A n \in 1..(gB * gH * gW * gC) :
              gout.data[n] = <<gin.data[n], gin.data[n]>>

\* a padded, shifted block
C10_Witness ==
    /\ gop = "block_forward"
    /\ gshift > 0
    /\ gH % gws # 0 /\ gW % gws # 0
    /\ gH > gws /\ gB > 1 /\ gC > 1
    /\ gout.data[gB * gH * gW * gC] = <<gin.data[gB * gH * gW * gC],
                                        gin.data[gB * gH * gW * gC]>>

\* C3: forward on N images invokes the backbone exactly once, on 5*N tiles,
\* and decoder pass i reads from every pyramid level the slice holding image
\* i's four quadrants in row-major order followed by image i's global view;
\* the mask of image i is computed from tiles of image i alone.
FiveTiles(i) ==
    <<Tile(i, "q00"), Tile(i, "q01"), Tile(i, "q10"), Tile(i, "q11"),
      Tile(i, "glb")>>

C3_FiveTilesPerImage ==
    /\ fpc \in {"idle", "assemble", "backbone"} => backboneCalls = 0
    /\ fpc \in {"layer", "decode", "cat", "returned", "raised"} =>
          /\ backboneCalls = 1
          /\ Len(final_input) = 5 * real_batch
          /\ \A k \in 1..Len(outs) : outs[k].B = 5 * real_batch
    /\ \A i \in 1..Len(reads) :
          /\ Len(reads[i]) = 5
          /\ \A k \in 1..5 : reads[i][k] = FiveTiles(i - 1)
    /\ \A i \in 1..Len(outputs) :
          /\ outputs[i].from = {i - 1}
          /\ outputs[i].shallow = i - 1

C3_Witness ==
    /\ fpc = "returned"
    /\ real_batch = 2
    /\ Len(reads) = 2
    /\ reads[2][1] = FiveTiles(1)
    /\ reads[2][5] = FiveTiles(1)

\* C5: during forward no field of a module instance is written other than
\* the positional-encoding fields of the Long-Range Fusion module; the H, W
\* fields of the Shifted-Window Blocks keep the value the constructor gave.
C5_OnlyEncodingFieldsWritten ==
    /\ written \subseteq {"MCLM.p_poses", "MCLM.g_pos"}
    /\ \A i \in 0..(num_layers - 1) : blkHW[i] = None

\* C6: in every one of a sequence of forward calls of varying tile shape,
\* the encodings MCLM.forward adds at line 411 are the ones of this call's
\* pooled maps and of this call's global tile, token for token.
C6_EncodingsOfThisCall ==
    Len(reads) > 0 =>
        LET e5 == outs[Len(outs)]
            own == [k \in 1..Len(pool_ratios) |->
                      positional_encoding(1, PyRound(e5.H, pool_ratios[k]),
                                          PyRound(e5.W, pool_ratios[k]))]
        IN  /\ mclmUsed.pc = "done"
            /\ mclmUsed.used = Some([p_poses |-> own,
                                     g_pos |-> positional_encoding(1, e5.H, e5.W)])
            /\ TokensOf(mclmUsed.used[1].p_poses) = TokensOf(mclmUsed.pools)
            /\ EncTokens(mclmUsed.used[1].g_pos) = e5.H * e5.W

\* a call that follows a call of another tile shape
C6_Witness ==
    /\ Len(reads) > 0
    /\ mclmUsed.pc = "done"
    /\ mclmPrev.pc = "done"
    /\ mclmPrev.h # mclmUsed.h
    /\ mclmPrev.w # mclmUsed.w
    /\ mclmUsed.h = outs[Len(outs)].H
    /\ mclmUsed.used[1].g_pos.h = mclmUsed.h
    /\ mclmPrev.used[1].g_pos.h = mclmPrev.h

\* C9 as stated: five feature maps, each of lower resolution and greater
\* depth than the one before.
BackboneDone == fpc \in {"decode", "cat", "returned", "raised"}

C9_StrictPyramid ==
    BackboneDone =>
        /\ Len(outs) = 5
        /\ \A k \in 1..4 :
              /\ outs[k + 1].H * outs[k + 1].W < outs[k].H * outs[k].W
              /\ outs[k + 1].C > outs[k].C

\* C9 amended: five feature maps, the embedding then the four stage outputs;
\* the first stage output has the resolution and depth of the embedding, and
\* each later stage output has twice the depth and the halved (rounded up)
\* height and width of the one before, so fewer tokens unless that one is
\* a single token.
C9_Pyramid ==
    BackboneDone =>
        /\ Len(outs) = 5
        /\ outs[1].C = embed_dim
        /\ outs[1].H = PatchEmbedSide(imgHW[1] \div 2)
        /\ outs[1].W = PatchEmbedSide(imgHW[2] \div 2)
        /\ outs[2].C = outs[1].C
        /\ outs[2].H = outs[1].H
        /\ outs[2].W = outs[1].W
        /\ \A k \in 2..4 :
              /\ outs[k + 1].C = 2 * outs[k].C
              /\ outs[k + 1].H = (outs[k].H + 1) \div 2
              /\ outs[k + 1].W = (outs[k].W + 1) \div 2
              /\ outs[k].H * outs[k].W > 1 =>
                    outs[k + 1].H * outs[k + 1].W < outs[k].H * outs[k].W
        /\ \A k \in 1..5 : outs[k].B = 5 * real_batch

C9_Witness ==
    /\ BackboneDone
    /\ Len(outs) = 5
    /\ outs[4].H % 2 = 1
    /\ outs[5].H = (outs[4].H + 1) \div 2
    /\ outs[2].C = embed_dim
    /\ outs[5].C = 8 * embed_dim
    /\ outs[5].H < outs[4].H

\* C4: of two MCLM.forward calls running at once on one instance, each adds
\* at line 411 only the encodings of its own pooled maps and of its own
\* global tile, and none fails on a field the other call has just emptied.
OwnEncodings(fr) ==
    [p_poses |-> [k \in 1..Len(pool_ratios) |->
                     positional_encoding(fr.lb \div 4,
                                         PyRound(fr.h, pool_ratios[k]),
                                         PyRound(fr.w, pool_ratios[k]))],
     g_pos   |-> positional_encoding(fr.gb, fr.gh, fr.gw)]

C4_ConcurrentCallsIsolated ==
    \A t \in Threads :
        /\ frames[t].pc # "error"
        /\ frames[t].pc = "done" => frames[t].used = Some(OwnEncodings(frames[t]))

\* C7: a Windowed Attention whose channel count is not a multiple of its
\* head count is refused at construction, so none is ever constructed and
\* none reaches forward.
C7_IndivisibleRefusedAtInit ==
    wa # None => wa[1].dim % wa[1].num_heads = 0

\* C8: a checkpoint with a missing key, an unexpected key, a wrong shape or
\* a wrong dtype aborts the initialization; inference runs only on a model
\* whose parameters were loaded from an exactly matching checkpoint.
ExactMatch(sd) ==
    /\ Keys(sd) = DeclaredKeys
    /\ \A k \in DeclaredKeys : sd[k] = Declared

C8_MismatchAbortsInit ==
    /\ rpc = "ready" => ExactMatch(checkpoint)
    /\ served > 0 => ExactMatch(checkpoint)

----------------------------------------------------------------------------
\* C11: inside a block the padded height and width are the smallest
\* multiples of the window size that are >= H, W; they are the Hp, Wp the
\* stage built its mask for, and the mask has one entry per window of one
\* image (the block's window count is the batch size times that).
C11_PaddedMultiples ==
    gop = "block" =>
        /\ gin.Hp % gws = 0 /\ gin.Wp % gws = 0
        /\ gin.Hp >= gH /\ gin.Hp - gws < gH
        /\ gin.Wp >= gW /\ gin.Wp - gws < gW
        /\ gin.Hp = gmid.Hp /\ gin.Wp = gmid.Wp
        /\ gout.shape[1] = (gin.Hp \div gws) * (gin.Wp \div gws)
        /\ gin.x_windows.shape[1] = gB * gout.shape[1]

\* A block ran on a grid that needed padding on one axis and none on the
\* other.
C11_Witness ==
    /\ gop = "block"
    /\ gH % gws # 0 /\ gin.Hp > gH
    /\ gW % gws = 0 /\ gin.Wp = gW

\* The region (0, 1, 2) of coordinate r on an axis of length n: before the
\* last window, the last window up to the shift boundary, after it.
RegionOf(r, n, window_size, shift_size) ==
    IF r < n - window_size THEN 0
    ELSE IF r < n - shift_size THEN 1 ELSE 2

\* The window-row and window-column of window w of a padded grid.
WindowRow(w, Wp, window_size) == w \div (Wp \div window_size)
WindowCol(w, Wp, window_size) == w % (Wp \div window_size)

\* C12: the stage's attention mask holds only 0 and -100; with a shift, the
\* label of a token is 3 * (row region) + (column region); mask[w, i, j] is
\* -100 exactly when tokens i and j of window w carry different labels and 0
\* when they carry the same; a window holding a -100 lies in the last
\* window-row or the last window-column.
C12_MaskValues ==
    gop = "attn_mask" =>
        LET N == gws * gws
            nW == gout.shape[1]
        IN  /\ \A n \in 1..(nW * N * N) : gout.data[n] \in {0, -100}
            /\ gshift > 0 =>
                 \A p \in 1..(gmid.Hp * gmid.Wp) :
                    gmid.img.data[p] =
                        3 * RegionOf(RowOf(p - 1, gmid.Hp, gmid.Wp, 1),
                                     gmid.Hp, gws, gshift)
                        + RegionOf(ColOf(p - 1, gmid.Wp, 1), gmid.Wp, gws, gshift)
            /\ \A w \in 0..(nW - 1) : \A i, j \in 0..(N - 1) :
                 gout.data[(w * N + i) * N + j + 1] =
                    (IF gmid.labels.data[w * N + i + 1]
                          # gmid.labels.data[w * N + j + 1]
                     THEN -100 ELSE 0)
            /\ \A n \in 1..(nW * N * N) :
                 gout.data[n] = -100 =>
                    \/ WindowRow((n - 1) \div (N * N), gmid.Wp, gws)
                          = (gmid.Hp \div gws) - 1
                    \/ WindowCol((n - 1) \div (N * N), gmid.Wp, gws)
                          = (gmid.Wp \div gws) - 1

\* The mask of a 14 x 14 grid with window 7 (shift 3) holds both values.
C12_Witness ==
    /\ gop = "attn_mask"
    /\ gH = 2 * DefaultWindow /\ gW = 2 * DefaultWindow
    /\ gws = DefaultWindow /\ gshift = 3
    /\ \E n \in 1..Len(gout.data) : gout.data[n] = -100
    /\ \E n \in 1..Len(gout.data) : gout.data[n] = 0

\* Position p (1-based) of the padded (B, Hp, Wp) grid was moved across the
\* top (left) edge by the cyclic shift of -shift_size.
MovedOverRow(p, Hp, Wp, shift_size) == RowOf(p - 1, Hp, Wp, 1) < shift_size
MovedOverCol(p, Wp, shift_size) == ColOf(p - 1, Wp, 1) < shift_size

\* C19: in a shifted block the term added to the logit of tokens i, j of
\* flat window k is mask[k mod nW][i][j]; it is 0 exactly when on each axis
\* both or neither of the two tokens wrapped around the grid edge, and -100
\* otherwise.
C19_WrapAroundMasked ==
    (gop = "block" /\ gin.shift_size > 0) =>
        /\ gin.err = ""
        /\ gin.term # None
        /\ LET N == gws * gws
               nW == gout.shape[1]
               term == gin.term[1].data
               tok == gin.x_windows.data
           IN  \A k \in 0..(gin.x_windows.shape[1] - 1) :
               \A i, j \in 0..(N - 1) :
                 /\ term[(k * N + i) * N + j + 1]
                       = gout.data[((k % nW) * N + i) * N + j + 1]
                 /\ term[(k * N + i) * N + j + 1] =
                      (IF /\ MovedOverRow(tok[k * N + i + 1], gin.Hp, gin.Wp,
                                          gin.shift_size)
                              = MovedOverRow(tok[k * N + j + 1], gin.Hp, gin.Wp,
                                             gin.shift_size)
                          /\ MovedOverCol(tok[k * N + i + 1], gin.Wp,
                                          gin.shift_size)
                              = MovedOverCol(tok[k * N + j + 1], gin.Wp,
                                             gin.shift_size)
                       THEN 0 ELSE -100)

\* A shifted block on a batch of two grids of several windows, with masked
\* and unmasked logits.
C19_Witness ==
    /\ gop = "block" /\ gin.shift_size > 0
    /\ gB >= 2
    /\ gout.shape[1] >= 4
    /\ gin.term # None
    /\ \E n \in 1..Len(gin.term[1].data) : gin.term[1].data[n] = -100
    /\ \E n \in 1..Len(gin.term[1].data) : gin.term[1].data[n] = 0

\* Row and column of token t inside a (wh x ww) window.
TokRow(t, ww) == t \div ww
TokCol(t, ww) == t % ww

\* C13: index[i][j] = (ri - rj + wh - 1) * (2*ww - 1) + (ci - cj + ww - 1);
\* equal offsets give equal indices and different offsets different ones;
\* every index lies in [0, (2*wh-1)*(2*ww-1) - 1]; the bias of head h for
\* (i, j) is the table cell (index[i][j], h); window size 2 gives the table
\* [[4,3,1,0],[5,4,2,1],[7,6,4,3],[8,7,5,4]].
C13_RelativePositionIndex ==
    waResult \in {"attention constructed", "bias added"} =>
        LET a == wa[1]
            wh == a.window_size[1]
            ww == a.window_size[2]
            N == wh * ww
            idx == a.relative_position_index.data
        IN  /\ \A i, j \in 0..(N - 1) :
                 /\ idx[i * N + j + 1] =
                      (TokRow(i, ww) - TokRow(j, ww) + wh - 1) * (2 * ww - 1)
                      + (TokCol(i, ww) - TokCol(j, ww) + ww - 1)
                 /\ idx[i * N + j + 1] >= 0
                 /\ idx[i * N + j + 1] <= (2 * wh - 1) * (2 * ww - 1) - 1
            /\ \A i, j, k, l \in 0..(N - 1) :
                 (idx[i * N + j + 1] = idx[k * N + l + 1])
                    <=> (/\ TokRow(i, ww) - TokRow(j, ww)
                              = TokRow(k, ww) - TokRow(l, ww)
                         /\ TokCol(i, ww) - TokCol(j, ww)
                              = TokCol(k, ww) - TokCol(l, ww))
            /\ (wh = 2 /\ ww = 2) =>
                 idx = <<4, 3, 1, 0, 5, 4, 2, 1, 7, 6, 4, 3, 8, 7, 5, 4>>
            /\ waResult = "bias added" =>
                 \A h \in 0..(a.num_heads - 1) : \A i, j \in 0..(N - 1) :
                    a.bias[1].data[(h * N + i) * N + j + 1]
                        = idx[i * N + j + 1] * a.num_heads + h + 1

\* The bias of a 2 x 3 window with two heads has been added.
C13_Witness ==
    /\ waResult = "bias added"
    /\ wa[1].window_size = <<2, 3>>
    /\ wa[1].num_heads = 2
    /\ wa[1].relative_position_index.data[1] = 7

\* ceil(n / 2)
HalfUp(n) == IF n % 2 = 0 THEN n \div 2 ELSE (n \div 2) + 1

\* C17: Patch Merging on H*W tokens of C channels yields
\* ceil(H/2) * ceil(W/2) tokens of 2*C channels, each computed from the 2 x 2
\* cell of the (zero-padded) grid it covers, and that count is the product of
\* the Wh, Ww = (H+1)//2, (W+1)//2 the stage reports; (1, 8, 8, 16) gives
\* (1, 16, 32).
C17_PatchMergingShape ==
    gop = "downsample" =>
        /\ gmid.err = ""
        /\ gmid.out # None
        /\ LET y == gmid.out[1]
           IN  /\ y.shape = <<gB, HalfUp(gH) * HalfUp(gW), 2 * gC>>
               /\ y.shape[2] = gout[1] * gout[2]
               /\ Len(y.tokens) = gB * gout[1] * gout[2]
               /\ y.shape = LET s == PatchMerging([B |-> gB, L |-> gH * gW,
                                                  C |-> gC], gH, gW)
                            IN  <<s.B, s.L, s.C>>
               /\ (gB = 1 /\ gH = 8 /\ gW = 8 /\ gC = 16)
                     => y.shape = <<1, 16, 32>>
               /\ \A t \in 1..Len(y.tokens) : \A c \in 1..(4 * gC) :
                    LET b == (t - 1) \div (gout[1] * gout[2])
                        i == ((t - 1) \div gout[2]) % gout[1]
                        j == (t - 1) % gout[2]
                        r == 2 * i + (((c - 1) \div gC) % 2)
                        q == 2 * j + ((c - 1) \div (2 * gC))
                    IN  y.tokens[t][c] =
                          (IF r < gH /\ q < gW
                           THEN gin.data[Offset(b, r, q, (c - 1) % gC,
                                                gH, gW, gC) + 1]
                           ELSE PadValue)

\* Patch Merging ran on a grid with an odd height and an even width.
C17_Witness ==
    /\ gop = "downsample"
    /\ gH % 2 = 1 /\ gH > 1 /\ gW % 2 = 0
    /\ gmid.out # None
    /\ gmid.out[1].shape[2] = ((gH + 1) \div 2) * (gW \div 2)

GlobalQuadrant(x, q) ==
    LET c == x.shape[2]
        h == x.shape[3]
        w == x.shape[4]
    IN  {x.data[Ravel(<<4, ch, (q \div 2) * (h \div 2) + i,
                          (q % 2) * (w \div 2) + j>>, x.shape) + 1] :
            ch \in 0..(c - 1), i \in 0..((h \div 2) - 1),
            j \in 0..((w \div 2) - 1)}

\* The elements of local tile i (0..3) of the batch x.
LocalTile(x, i) ==
    {x.data[i * x.shape[2] * x.shape[3] * x.shape[4] + n] :
        n \in 1..(x.shape[2] * x.shape[3] * x.shape[4])}

\* C18: in MCRM local tile i is the query of attention instance i, its keys
\* are pooled from quadrant i of the global tile only, and its gate is
\* quadrant i of the upsampled saliency map; in MCLM local tile i is the
\* query of attention instance i + 1 and its keys are quadrant i of the
\* updated global token grid.
C18_QuadrantCorrespondence ==
    /\ (gop = "MCLM" /\ gout.err = "") =>
          \A i \in 0..3 :
            /\ gout.attn[i + 1].instance = i + 1
            /\ gout.attn[i + 1].query = LocalTile(gin, i)
            /\ gout.attn[i + 1].keys = GlobalQuadrant(gin, i)
    /\ (gop = "MCRM" /\ gout.err = "") =>
          \A i \in 0..3 :
            /\ gout.attn[i + 1].instance = i
            /\ gout.attn[i + 1].query = LocalTile(gin, i)
            /\ gout.attn[i + 1].keys # {}
            /\ gout.attn[i + 1].keys \subseteq GlobalQuadrant(gin, i)
            /\ \A y \in 0..(gH - 1), x \in 0..(gW - 1) :
                 gout.gate[1].data[(i * gH + y) * gW + x + 1]
                    = gout.up[1].data[((i \div 2) * gH + y) * (2 * gW)
                                      + (i % 2) * gW + x + 1]

\* The Multi-Scale Routing Fusion ran on tiles of 4 x 6 with two channels.
C18_Witness ==
    /\ gop = "MCRM"
    /\ gH = 4 /\ gW = 6 /\ gC = 2
    /\ gout.err = ""
    /\ gout.attn[2].keys # gout.attn[3].keys

\* C15: forward on N >= 1 images of 1024 x 1024 returns a tensor of shape
\* (N, 1, 1024, 1024): the quadrant reassembly and the two x2 upsampling
\* steps restore the input height and width, and mask i is the mask of
\* image i.
C15_OutputShape ==
    /\ (imgHW = <<InferenceSide, InferenceSide>>
            /\ fpc \in {"decode", "cat", "returned", "raised"}) => fpc # "raised"
    /\ (fpc = "returned" /\ imgHW = <<InferenceSide, InferenceSide>>) =>
          /\ result # None
          /\ result[1].shape = <<real_batch, 1, 1024, 1024>>
          /\ result[1].images = [i \in 1..real_batch |-> i - 1]
          /\ \A i \in 1..real_batch :
                /\ outputs[i].shape = <<1, 1, imgHW[1], imgHW[2]>>
                /\ outputs[i].from = {i - 1}

\* forward returned for a batch of two images of 1024 x 1024.
C15_Witness ==
    /\ fpc = "returned"
    /\ imgHW = <<1024, 1024>>
    /\ real_batch = 2
    /\ result # None
    /\ result[1].shape[1] = 2

\* C16: every value of the mask the output head returns lies in [0, 1]
\* (0 .. FixScale in fixed point), whatever the logits; large logits
\* saturate to exactly 0 or 1.
C16_MaskInUnitInterval ==
    gop = "sigmoid" =>
        /\ gout.shape = gin.shape
        /\ \A n \in 1..Prod(gout.shape) :
              /\ 0 <= gout.data[n]
              /\ gout.data[n] <= FixScale
        /\ \A m, n \in 1..Prod(gout.shape) :
              gin.data[m] <= gin.data[n] => gout.data[m] <= gout.data[n]

\* A mask with a pixel saturated at 0 and a pixel saturated at 1.
C16_Witness ==
    /\ gop = "sigmoid"
    /\ gW = 2
    /\ gin.data[1] = -MaxLogit /\ gout.data[1] = 0
    /\ gin.data[2] = MaxLogit /\ gout.data[2] = FixScale

====
